---- MODULE Spec2Model ----
(***************************************************************************)
(* Model of interactive.py, the Streamlit RNA-seq differential expression  *)
(* dashboard.  The page script is re-executed from top to bottom on every  *)
(* user interaction; the only state that survives a rerun is the widget    *)
(* state and st.session_state.results.                                     *)
(*                                                                         *)
(* Numbers.  A float is a record [nan, n, d]: NaN, or the rational n/d     *)
(* (d > 0).  p-values, FDR values and the FDR cutoff are counted in        *)
(* thousandths (0.001 = 1, 0.05 = 50, 1.0 = 1000).  Log2FoldChange is kept *)
(* as its antilogarithm: the record n/d stands for log2(n/d), so that      *)
(* log2(t + 1) - log2(u + 1) is exactly (t + 1)/(u + 1); the cutoff on     *)
(* |Log2FoldChange| is counted in halves (0.5 = 1), which makes            *)
(* |log2(n/d)| >= h/2 the exact integer test n^2 >= 2^h d^2 or             *)
(* d^2 >= 2^h n^2.                                                         *)
(***************************************************************************)
EXTENDS Integers, Sequences, FiniteSets, TLC

\* Bounds of the model.
MaxGenes == 2
MaxTests == 3
MaxRows == 2

---------------------------------------------------------------------------
\* Floats: NaN or a rational.

NaN == [nan |-> TRUE, n |-> 0, d |-> 1]

Num(n, d) == [nan |-> FALSE, n |-> n, d |-> d]

\* a <= b on floats; any comparison with NaN is False (numpy semantics).
RLe(a, b) == ~a.nan /\ ~b.nan /\ a.n * b.d <= b.n * a.d

\* Mutant of RGe: a strict comparison.
RGt(a, b) == ~a.nan /\ ~b.nan /\ a.n * b.d > b.n * a.d

RGe(a, b) == ~a.nan /\ ~b.nan /\ a.n * b.d >= b.n * a.d

RMin(a, b) == IF a.n * b.d <= b.n * a.d THEN a ELSE b

Pow2(h) == IF h = 0 THEN 1 ELSE IF h = 1 THEN 2 ELSE 4

\* abs(x) >= h/2 for x = log2(n/d); False on NaN.
AbsLog2Ge(x, h) ==
    /\ ~x.nan
    /\ \/ x.n * x.n >= Pow2(h) * x.d * x.d
       \/ x.d * x.d >= Pow2(h) * x.n * x.n

---------------------------------------------------------------------------
\* Benjamini-Hochberg, as multipletests(pvalues, method="fdr_bh")[1] computes it.

\* multipletests divides by len(pvals) (1./ntests) before anything else.
BHRaises(p) == Len(p) = 0

\* Position of p[k] in the ascending sort of p (np.argsort), 1-indexed.
Rank(p, k) ==
    Cardinality({j \in 1..Len(p) : p[j] < p[k] \/ (p[j] = p[k] /\ j <= k)})

SortInd(p) == [r \in 1..Len(p) |-> CHOOSE k \in 1..Len(p) : Rank(p, k) = r]

\* pvals_sorted / ecdffactor, ecdffactor = i/m: the value p(i) * m / i.
BHRaw(p) ==
    [r \in 1..Len(p) |-> Num(p[SortInd(p)[r]] * Len(p), r)]

\* Mutant of CumMinFrom: the raw values, monotonicity not enforced.
BHNoCumMin(raw, r) == raw[r]

RECURSIVE CumMinFrom(_, _)
\* np.minimum.accumulate(raw[::-1])[::-1] at position r.
CumMinFrom(raw, r) ==
    IF r = Len(raw) THEN raw[r] ELSE RMin(raw[r], CumMinFrom(raw, r + 1))

\* pvals_corrected[pvals_corrected > 1] = 1
Clip1(x) == IF x.n > 1000 * x.d THEN Num(1000, 1) ELSE x

\* The corrected values in the original order of p.
BH(p) == [k \in 1..Len(p) |-> Clip1(CumMinFrom(BHRaw(p), Rank(p, k)))]

---------------------------------------------------------------------------
\* Filtering (tab 2): boolean masks, combined with &, then boolean indexing.

MaskFDR(results, fdr) == [i \in 1..Len(results) |-> RLe(results[i].FDR, Num(fdr, 1))]

MaskBaseMean(results, bm) ==
    [i \in 1..Len(results) |-> RGe(results[i].BaseMean, Num(bm, 1))]

MaskLog2FC(results, h) ==
    [i \in 1..Len(results) |-> AbsLog2Ge(results[i].Log2FoldChange, h)]

RECURSIVE Take(_, _, _)
\* results[mask]: the rows whose mask entry is True, in order, from row i on.
Take(results, mask, i) ==
    IF i > Len(results) THEN <<>>
    ELSE IF mask[i] THEN <<results[i]>> \o Take(results, mask, i + 1)
    ELSE Take(results, mask, i + 1)

FilterMask(results, thr) ==
    [i \in 1..Len(results) |->
        /\ MaskFDR(results, thr.fdr_cutoff)[i]
        /\ MaskBaseMean(results, thr.base_mean_cutoff)[i]
        /\ MaskLog2FC(results, thr.log2fc_cutoff)[i]]

\* Mutant of Filter: the indexing starts one row late.
FilterFromSecond(results, thr) == Take(results, FilterMask(results, thr), 2)

Filter(results, thr) == Take(results, FilterMask(results, thr), 1)

---------------------------------------------------------------------------
\* The uploaded count matrix.  A file is absent ("none"), not valid delimited
\* text ("bad"), or parses to a frame of n rows over the columns Cols ("ok").

Cols == {"Gene", "S1", "S2", "S3"}

NoFile == [kind |-> "none", n |-> 0]

BadFile == [kind |-> "bad", n |-> 0]

OkFile(n) == [kind |-> "ok", n |-> n]

Files == {BadFile} \cup {OkFile(n) : n \in 0..MaxGenes}

Cell(k, v) == [k |-> k, v |-> v]

\* Row i of the uploaded matrix: a gene name and three sample cells, which are
\* numbers, text ("txt") or empty ("na").
UploadRow(i) ==
    CASE i % 4 = 1 ->
           [Gene |-> Cell("txt", i), S1 |-> Cell("num", 40), S2 |-> Cell("num", 10),
            S3 |-> Cell("num", 20)]
      [] i % 4 = 2 ->
           [Gene |-> Cell("txt", i), S1 |-> Cell("txt", 0), S2 |-> Cell("num", 4),
            S3 |-> Cell("num", 7)]
      [] i % 4 = 3 ->
           [Gene |-> Cell("txt", i), S1 |-> Cell("num", 30), S2 |-> Cell("na", 0),
            S3 |-> Cell("na", 0)]
      [] OTHER ->
           [Gene |-> Cell("txt", i), S1 |-> Cell("num", 0), S2 |-> Cell("num", 0),
            S3 |-> Cell("txt", 0)]

\* pd.read_csv of an "ok" file.
ReadCsv(file) == [i \in 1..file.n |-> UploadRow(i)]

\* Condition labels the user may type; "" is an empty text input.
Labels == {"", "Treated", "untreated", "ctrl"}

\* The sample selections tried in the interactive session.
SessionSelections == SUBSET {"S1", "S2"}

Lower(s) == IF s = "Treated" THEN "treated" ELSE s

\* Simulated p-values, np.random.uniform(0, 0.05), in thousandths.
PVals == {0, 10, 30, 50}

SessionPVals == {20, 50}

FdrCutoffs == {1, 10, 50}

BaseMeanCutoffs == {0, 10}

Log2fcCutoffs == {0, 1}

Thresholds ==
    [fdr_cutoff : FdrCutoffs, base_mean_cutoff : BaseMeanCutoffs,
     log2fc_cutoff : Log2fcCutoffs]

DefaultThresholds == [fdr_cutoff |-> 10, base_mean_cutoff |-> 10, log2fc_cutoff |-> 1]

---------------------------------------------------------------------------
\* The pipeline (tab 1, inside the try block).

\* pd.to_numeric(errors='coerce') on one cell.
ToNumeric(cell) == IF cell.k = "num" THEN cell ELSE Cell("na", 0)

\* df[sample_cols] = df[sample_cols].apply(pd.to_numeric, errors='coerce')
Coerce(df, sample_cols) ==
    [i \in 1..Len(df) |->
        [c \in Cols |-> IF c \in sample_cols THEN ToNumeric(df[i][c]) ELSE df[i][c]]]

ConditionMapping(sample_cols, labels) == {c \in sample_cols : labels[c] # ""}

TreatedSamples(sample_cols, labels) ==
    {c \in ConditionMapping(sample_cols, labels) : Lower(labels[c]) = "treated"}

UntreatedSamples(sample_cols, labels) ==
    {c \in ConditionMapping(sample_cols, labels) : Lower(labels[c]) = "untreated"}

\* Mutant of GroupsDefined: one group is enough.
GroupsDefinedOr(sample_cols, labels) ==
    TreatedSamples(sample_cols, labels) # {} \/ UntreatedSamples(sample_cols, labels) # {}

\* if treated_samples and untreated_samples:
GroupsDefined(sample_cols, labels) ==
    TreatedSamples(sample_cols, labels) # {} /\ UntreatedSamples(sample_cols, labels) # {}

RECURSIVE SumCells(_, _)
SumCells(row, cols) ==
    IF cols = {} THEN 0
    ELSE LET c == CHOOSE x \in cols : TRUE
         IN  row[c].v + SumCells(row, cols \ {c})

\* df[cols].mean(axis=1) on one row: the mean of the cells that are numbers.
RowMean(row, cols) ==
    LET present == {c \in cols : row[c].k = "num"}
    IN  IF present = {} THEN NaN ELSE Num(SumCells(row, present), Cardinality(present))

\* np.log2(treated_expr + 1) - np.log2(untreated_expr + 1), as (t + 1)/(u + 1).
Log2FC(t, u) ==
    IF t.nan \/ u.nan THEN NaN ELSE Num((t.n + t.d) * u.d, (u.n + u.d) * t.d)

\* (treated_expr + untreated_expr) / 2
BaseMeanOf(t, u) ==
    IF t.nan \/ u.nan THEN NaN ELSE Num(t.n * u.d + u.n * t.d, 2 * t.d * u.d)

\* The results dataframe, one row per row of df.
ResultsFrame(df, gene_id_col, sample_cols, labels, pv) ==
    LET num == Coerce(df, sample_cols)
        fdr == BH(pv)
    IN  [i \in 1..Len(df) |->
            LET t == RowMean(num[i], TreatedSamples(sample_cols, labels))
                u == RowMean(num[i], UntreatedSamples(sample_cols, labels))
            IN  [Gene |-> num[i][gene_id_col],
                 BaseMean |-> BaseMeanOf(t, u),
                 Log2FoldChange |-> Log2FC(t, u),
                 pvalue |-> Num(pv[i], 1),
                 FDR |-> fdr[i]]]

\* st.session_state.results: None, or a dataframe.
None == [isNone |-> TRUE, rows |-> <<>>]

Frame(rows) == [isNone |-> FALSE, rows |-> rows]

\* Mutant of SessionInit: the slot is reset on every rerun.
SessionReset(results) == None

\* if "results" not in st.session_state: st.session_state.results = None
SessionInit(results) == results

\* Mutant of OnException: the frame built so far is left in the slot.
KeepPartial(old, df) == Frame(<<>>)

\* except Exception as e: st.error(...); the slot is not touched.
OnException(old, df) == old

\* The run-button handler: the message shown and the value of the slot after it.
RunPipeline(df, gene_id_col, sample_cols, labels, pv, old) ==
    IF ~GroupsDefined(sample_cols, labels)
    THEN [msg |-> "error_config", results |-> old]
    ELSE IF BHRaises(pv)
    THEN [msg |-> "exception", results |-> OnException(old, df)]
    ELSE [msg |-> "success",
          results |-> Frame(ResultsFrame(df, gene_id_col, sample_cols, labels, pv))]

\* Tab 1 of one execution of the script.
Tab1(file, gene_id_col, sample_cols, labels, pressed, pv, old) ==
    IF file.kind = "none" THEN [msg |-> "info_upload", results |-> old]
    ELSE IF file.kind = "bad" THEN [msg |-> "parse_error", results |-> old]
    ELSE IF sample_cols = {} THEN [msg |-> "warning_cols", results |-> old]
    ELSE IF ~pressed THEN [msg |-> "idle", results |-> old]
    ELSE RunPipeline(ReadCsv(file), gene_id_col, sample_cols, labels, pv, old)

\* Tab 2 of one execution of the script: what was rendered, and filtered_df.
Tab2(file, sample_cols, thr, res) ==
    IF file.kind = "bad" THEN [tab2 |-> "not_run", filtered_df |-> <<>>]
    ELSE IF res.isNone THEN [tab2 |-> "info_run", filtered_df |-> <<>>]
    ELSE LET f == Filter(res.rows, thr)
         IN  IF f # <<>> /\ file.kind = "none"
             THEN [tab2 |-> "NameError", filtered_df |-> f]
             ELSE IF f # <<>> /\ sample_cols = {}
             THEN [tab2 |-> "ValueError", filtered_df |-> f]
             ELSE [tab2 |-> "rendered", filtered_df |-> f]

---------------------------------------------------------------------------
\* The session: widget state, the session slot, and what the last execution
\* of the script showed.

VARIABLES
    uploaded_file,   \* st.sidebar.file_uploader
    gene_id_col,     \* st.selectbox over df.columns
    sample_cols,     \* st.multiselect over df.columns
    labels,          \* the st.text_input of each selected sample
    thresholds,      \* fdr_cutoff, base_mean_cutoff, log2fc_cutoff
    button,          \* st.button: True only in the rerun its click triggers
    results,         \* st.session_state.results
    msg,             \* the message tab 1 showed
    tab2,            \* how far tab 2 got
    filtered_df,     \* filtered_df of the last execution
    had_error,       \* history: some earlier execution ended in an error
    bh,              \* a call of multipletests on its own
    flt              \* a call of the tab 2 filter on its own

vars ==
    <<uploaded_file, gene_id_col, sample_cols, labels, thresholds, button,
      results, msg, tab2, filtered_df, had_error, bh, flt>>

NoLabels == [c \in Cols |-> ""]

BHIdle == [stage |-> "idle", p |-> <<>>, fdr |-> <<>>]

FilterIdle ==
    [stage |-> "idle", tbl |-> <<>>, thr |-> DefaultThresholds, view |-> <<>>,
     again |-> <<>>]

\* The messages of section 7's errors: a file that does not parse, a missing
\* selection or group, an exception in the pipeline.
ErrorMsgs == {"parse_error", "warning_cols", "error_config", "exception"}

\* One execution of the script with the given widget values.
Script(file, gene, samples, labs, thr, pressed, pv) ==
    LET t1 == Tab1(file, gene, samples, labs, pressed, pv, SessionInit(results))
        t2 == Tab2(file, samples, thr, t1.results)
    IN  /\ uploaded_file' = file
        /\ gene_id_col' = gene
        /\ sample_cols' = samples
        /\ labels' = labs
        /\ thresholds' = thr
        /\ button' = pressed
        /\ results' = t1.results
        /\ msg' = t1.msg
        /\ tab2' = t2.tab2
        /\ filtered_df' = t2.filtered_df
        /\ had_error' = (had_error \/ t1.msg \in ErrorMsgs)
        /\ UNCHANGED <<bh, flt>>

\* The state after the first execution of the script, before any interaction.
Init ==
    /\ uploaded_file = NoFile
    /\ gene_id_col = "Gene"
    /\ sample_cols = {}
    /\ labels = NoLabels
    /\ thresholds = DefaultThresholds
    /\ button = FALSE
    /\ results = None
    /\ msg = "info_upload"
    /\ tab2 = "info_run"
    /\ filtered_df = <<>>
    /\ had_error = FALSE
    /\ bh = BHIdle
    /\ flt = FilterIdle

\* The user uploads a file.  The widgets of tab 1 keep their state only if
\* the script renders them again, which it does for a file that parses.
Upload(f) ==
    IF f.kind = "ok" /\ uploaded_file.kind = "ok"
    THEN Script(f, gene_id_col, sample_cols, labels, thresholds, FALSE, <<>>)
    ELSE Script(f, "Gene", {}, NoLabels, thresholds, FALSE, <<>>)

\* The user removes the uploaded file.
RemoveFile ==
    /\ uploaded_file.kind # "none"
    /\ Script(NoFile, "Gene", {}, NoLabels, thresholds, FALSE, <<>>)

\* The text input of a sample that is no longer selected is not rendered and
\* loses its value.
SelectSamples(S) ==
    /\ uploaded_file.kind = "ok"
    /\ Script(uploaded_file, gene_id_col, S,
              [c \in Cols |-> IF c \in S THEN labels[c] ELSE ""],
              thresholds, FALSE, <<>>)

SetLabel(c, l) ==
    /\ uploaded_file.kind = "ok"
    /\ c \in sample_cols
    /\ Script(uploaded_file, gene_id_col, sample_cols, [labels EXCEPT ![c] = l],
              thresholds, FALSE, <<>>)

\* The sidebar is rendered before anything can fail.
SetThresholds(t) ==
    /\ t # thresholds
    /\ Script(uploaded_file, gene_id_col, sample_cols, labels, t, FALSE, <<>>)

\* The run button exists only below a non-empty sample selection.
ClickRun(pv) ==
    /\ uploaded_file.kind = "ok"
    /\ sample_cols # {}
    /\ Script(uploaded_file, gene_id_col, sample_cols, labels, thresholds, TRUE, pv)

\* The download button exists only at the end of a fully rendered tab 2.
ClickDownload ==
    /\ tab2 = "rendered"
    /\ Script(uploaded_file, gene_id_col, sample_cols, labels, thresholds, FALSE, <<>>)

Next ==
    \/ \E f \in Files : Upload(f)
    \/ RemoveFile
    \/ \E S \in SessionSelections : SelectSamples(S)
    \/ \E c \in Cols, l \in Labels : SetLabel(c, l)
    \/ \E t \in Thresholds : SetThresholds(t)
    \/ \E pv \in [1..uploaded_file.n -> SessionPVals] : ClickRun(pv)
    \/ ClickDownload

Spec == Init /\ [][Next]_vars

---------------------------------------------------------------------------
\* One pipeline run from a configured session: a parsed file, a gene column,
\* a non-empty sample selection and any labels, then one click on the button.

Configs ==
    {l \in [Cols -> Labels \cup {"unselected"}] : \E c \in Cols : l[c] # "unselected"}

InitConfigured ==
    /\ uploaded_file \in {OkFile(n) : n \in 0..MaxGenes}
    /\ gene_id_col \in Cols
    /\ \E cfg \in Configs :
          /\ sample_cols = {c \in Cols : cfg[c] # "unselected"}
          /\ labels = [c \in Cols |-> IF cfg[c] = "unselected" THEN "" ELSE cfg[c]]
    /\ thresholds = DefaultThresholds
    /\ button = FALSE
    /\ results = None
    /\ msg = "idle"
    /\ tab2 = "info_run"
    /\ filtered_df = <<>>
    /\ had_error = FALSE
    /\ bh = BHIdle
    /\ flt = FilterIdle

RunOnce(pv) ==
    /\ msg = "idle"
    /\ ClickRun(pv)

NextRun == \E pv \in [1..uploaded_file.n -> PVals] : RunOnce(pv)

SpecRun == InitConfigured /\ [][NextRun]_vars

---------------------------------------------------------------------------
\* multipletests(p, method="fdr_bh") on its own, for any vector of p-values.

BHPVals == {0, 10, 50, 400, 1000}

SessionIdle ==
    /\ uploaded_file = NoFile
    /\ gene_id_col = "Gene"
    /\ sample_cols = {}
    /\ labels = NoLabels
    /\ thresholds = DefaultThresholds
    /\ button = FALSE
    /\ results = None
    /\ msg = "info_upload"
    /\ tab2 = "info_run"
    /\ filtered_df = <<>>
    /\ had_error = FALSE

InitBH ==
    /\ SessionIdle
    /\ \E m \in 1..MaxTests : \E p \in [1..m -> BHPVals] :
          bh = [stage |-> "input", p |-> p, fdr |-> <<>>]
    /\ flt = FilterIdle

ApplyBH ==
    /\ bh.stage = "input"
    /\ bh' = [stage |-> "done", p |-> bh.p, fdr |-> BH(bh.p)]
    /\ UNCHANGED <<uploaded_file, gene_id_col, sample_cols, labels, thresholds,
                   button, results, msg, tab2, filtered_df, had_error, flt>>

SpecBH == InitBH /\ [][ApplyBH]_vars

---------------------------------------------------------------------------
\* The tab 2 filter on its own, for any results frame and thresholds, applied
\* once and then again to its own output.

BaseMeanVals == {NaN, Num(5, 1), Num(10, 1)}

Log2FCVals == {NaN, Num(1, 1), Num(3, 2), Num(1, 4)}

FDRVals == {Num(10, 1), Num(20, 1)}

FrameRows ==
    [BaseMean : BaseMeanVals, Log2FoldChange : Log2FCVals, FDR : FDRVals]

\* A results frame whose row i is gene i.
FrameOf(vals) ==
    [i \in 1..Len(vals) |->
        [Gene |-> Cell("txt", i),
         BaseMean |-> vals[i].BaseMean,
         Log2FoldChange |-> vals[i].Log2FoldChange,
         pvalue |-> Num(10, 1),
         FDR |-> vals[i].FDR]]

InitFilter ==
    /\ SessionIdle
    /\ bh = BHIdle
    /\ \E n \in 0..MaxRows : \E vals \in [1..n -> FrameRows] : \E thr \in Thresholds :
          flt = [stage |-> "input", tbl |-> FrameOf(vals), thr |-> thr,
                 view |-> <<>>, again |-> <<>>]

ApplyFilter ==
    /\ flt.stage = "input"
    /\ flt' = [flt EXCEPT !.stage = "filtered", !.view = Filter(flt.tbl, flt.thr)]
    /\ UNCHANGED <<uploaded_file, gene_id_col, sample_cols, labels, thresholds,
                   button, results, msg, tab2, filtered_df, had_error, bh>>

ApplyFilterAgain ==
    /\ flt.stage = "filtered"
    /\ flt' = [flt EXCEPT !.stage = "twice", !.again = Filter(flt.view, flt.thr)]
    /\ UNCHANGED <<uploaded_file, gene_id_col, sample_cols, labels, thresholds,
                   button, results, msg, tab2, filtered_df, had_error, bh>>

NextFilter == ApplyFilter \/ ApplyFilterAgain

SpecFilter == InitFilter /\ [][NextFilter]_vars

---------------------------------------------------------------------------
\* Properties.

NoTreated == TreatedSamples(sample_cols, labels) = {}

NoUntreated == UntreatedSamples(sample_cols, labels) = {}

\* C1: a rerun in which the run button fired with no sample labelled treated
\* or none labelled untreated shows the configuration error and leaves the
\* session slot as it was; with no sample column selected the button cannot
\* fire, the warning is shown and the slot is left as it was.
C1_ConfigErrorBlocksRun ==
    [][/\ (button' /\ (NoTreated' \/ NoUntreated'))
            => (msg' = "error_config" /\ results' = results)
       /\ (uploaded_file'.kind = "ok" /\ sample_cols' = {})
            => (~button' /\ msg' = "warning_cols" /\ results' = results)]_vars

\* A run was refused for a missing group while an earlier frame was stored.
C1_Witness == button /\ msg = "error_config" /\ NoUntreated /\ ~results.isNone

\* C2: a rerun whose pipeline raised shows the exception message, goes on to
\* tab 2 (the exception was caught) and leaves the session slot as it was.
C2_ExceptionKeepsSlot ==
    [][msg' = "exception"
         => (button' /\ results' = results /\ tab2' \in {"info_run", "rendered"})]_vars

\* A run raised while an earlier frame was stored.
C2_Witness == button /\ msg = "exception" /\ ~results.isNone

\* C3: the session slot changes only in a rerun whose pipeline succeeded, to
\* a frame; once it holds a frame it is never None again.
C3_SlotChangesOnlyOnSuccess ==
    [][/\ results' # results => (button' /\ msg' = "success" /\ ~results'.isNone)
       /\ ~results.isNone => ~results'.isNone]_vars

\* A stored frame survived the removal of the file and a change of thresholds.
C3_Witness ==
    /\ ~results.isNone
    /\ uploaded_file.kind = "none"
    /\ thresholds # DefaultThresholds
    /\ msg = "info_upload"

\* C4 (as claimed): a rerun that ends in an error stores nothing, and once an
\* error has happened a rerun with a file that parses, a treated and an
\* untreated sample and the run button still stores a frame.
C4_RetryAfterErrorStores ==
    [][/\ msg' \in ErrorMsgs => results' = results
       /\ (had_error /\ button' /\ uploaded_file'.kind = "ok" /\ ~NoTreated' /\ ~NoUntreated')
            => (msg' = "success" /\ ~results'.isNone)]_vars

\* C5 (as claimed): in every rerun that reaches tab 2 with a frame in the
\* session slot, tab 2 is rendered to its end (heatmap, MA plot, volcano plot,
\* table and download button), whatever the upload and the sample selection.
C5_Tab2RendersWheneverResults ==
    (~results.isNone /\ tab2 # "not_run") => tab2 = "rendered"

\* C6 (as claimed): a run with a treated and an untreated sample stores a
\* frame with one row per row of the uploaded matrix, in its order.
C6_OneRowPerGene ==
    (button /\ ~NoTreated /\ ~NoUntreated)
        => /\ ~results.isNone
           /\ Len(results.rows) = uploaded_file.n
           /\ gene_id_col \notin sample_cols
                => \A i \in 1..uploaded_file.n :
                      results.rows[i].Gene = ReadCsv(uploaded_file)[i][gene_id_col]

BHInUnitInterval ==
    \A k \in 1..Len(bh.fdr) : bh.fdr[k].n >= 0 /\ bh.fdr[k].n <= 1000 * bh.fdr[k].d

\* C7 (as claimed): read from the largest p-value to the smallest, the
\* Benjamini-Hochberg values never decrease, and all lie in [0, 1].
C7_BHNonDecreasingInDescendingP ==
    bh.stage = "done"
        => /\ \A i, j \in 1..Len(bh.p) :
                bh.p[i] > bh.p[j] => bh.fdr[i].n * bh.fdr[j].d <= bh.fdr[j].n * bh.fdr[i].d
           /\ BHInUnitInterval

\* C7 (amended): read from the smallest p-value to the largest, the
\* Benjamini-Hochberg values never decrease, and all lie in [0, 1].
C7_BHNonDecreasingInAscendingP ==
    bh.stage = "done"
        => /\ \A i, j \in 1..Len(bh.p) :
                bh.p[i] <= bh.p[j] => bh.fdr[i].n * bh.fdr[j].d <= bh.fdr[j].n * bh.fdr[i].d
           /\ BHInUnitInterval

\* The running minimum lowered a value: some p(i) * m / i exceeded a later one.
C7_Witness ==
    /\ bh.stage = "done"
    /\ \E i, j \in 1..Len(bh.p) :
          /\ bh.p[i] < bh.p[j]
          /\ bh.p[i] * Len(bh.p) * Rank(bh.p, j) > bh.p[j] * Len(bh.p) * Rank(bh.p, i)
          /\ bh.fdr[i] # Num(bh.p[i] * Len(bh.p), Rank(bh.p, i))

Kept(r, thr) ==
    /\ ~r.FDR.nan /\ ~r.BaseMean.nan /\ ~r.Log2FoldChange.nan
    /\ r.FDR.n <= thr.fdr_cutoff * r.FDR.d
    /\ r.BaseMean.n >= thr.base_mean_cutoff * r.BaseMean.d
    /\ \/ r.Log2FoldChange.n * r.Log2FoldChange.n
            >= Pow2(thr.log2fc_cutoff) * r.Log2FoldChange.d * r.Log2FoldChange.d
       \/ r.Log2FoldChange.d * r.Log2FoldChange.d
            >= Pow2(thr.log2fc_cutoff) * r.Log2FoldChange.n * r.Log2FoldChange.n

\* C8: the filtered view holds exactly the rows with FDR <= fdr_cutoff,
\* BaseMean >= base_mean_cutoff and |Log2FoldChange| >= log2fc_cutoff, each
\* once, in the order of the frame and unchanged; no row with a missing
\* BaseMean or Log2FoldChange is in it.
C8_FilterKeepsExactly ==
    flt.stage # "input"
        => /\ \A i \in 1..Len(flt.tbl) :
                Cardinality({k \in 1..Len(flt.view) : flt.view[k] = flt.tbl[i]})
                    = IF Kept(flt.tbl[i], flt.thr) THEN 1 ELSE 0
           /\ \A k \in 1..Len(flt.view) : \E i \in 1..Len(flt.tbl) : flt.view[k] = flt.tbl[i]
           /\ \A k, l \in 1..Len(flt.view) : k < l => flt.view[k].Gene.v < flt.view[l].Gene.v
           /\ \A k \in 1..Len(flt.view) :
                ~flt.view[k].BaseMean.nan /\ ~flt.view[k].Log2FoldChange.nan

\* A frame of which the filter kept one row, dropped a row with a missing
\* value and kept a row that sits exactly on the BaseMean cutoff.
C8_Witness ==
    /\ flt.stage = "filtered"
    /\ Len(flt.view) >= 1
    /\ Len(flt.view) < Len(flt.tbl)
    /\ \E i \in 1..Len(flt.tbl) : flt.tbl[i].BaseMean.nan
    /\ \E k \in 1..Len(flt.view) :
          flt.view[k].BaseMean = Num(flt.thr.base_mean_cutoff, 1)

\* C9: the filter applied to its own output, with the same thresholds, gives
\* that output back.
C9_FilterIdempotent == flt.stage = "twice" => flt.again = flt.view

\* The filter was applied twice to a frame of which it drops a row and keeps one.
C9_Witness ==
    /\ flt.stage = "twice"
    /\ Len(flt.view) >= 1
    /\ Len(flt.view) < Len(flt.tbl)

\* C10: in every frame the pipeline stores, pvalue <= FDR <= 0.05 on every
\* row, so the FDR condition of the filter with fdr_cutoff = 0.05 keeps every
\* row.
C10_PValueLeFdrLeCap ==
    ~results.isNone
        => \A i \in 1..Len(results.rows) :
              /\ RLe(results.rows[i].pvalue, results.rows[i].FDR)
              /\ RLe(results.rows[i].FDR, Num(50, 1))
              /\ MaskFDR(results.rows, 50)[i]

\* A stored frame in which Benjamini-Hochberg raised a p-value below 0.05 to
\* exactly 0.05: p * m / i was larger, and the running minimum capped it at
\* the largest p-value.
C10_Witness ==
    /\ ~results.isNone
    /\ \E i \in 1..Len(results.rows) :
          /\ results.rows[i].pvalue.n < 50
          /\ results.rows[i].FDR.n = 50 * results.rows[i].FDR.d

====
